---- MODULE Spec2Model ----
(***************************************************************************)
(* CohortStore (src/cohortstore/store.py): a SQL-string builder with       *)
(* positional parameters over a DuckDB table, and the delete-then-insert   *)
(* upsert of src/etl_wrappers.py.                                          *)
(*                                                                         *)
(* SQL text and identifiers are sequences of one-character strings, so     *)
(* quoting, joining, case folding and substring tests are computed the way *)
(* the Python code computes them.  Bound values are opaque strings.        *)
(***************************************************************************)
EXTENDS Integers, Sequences, FiniteSets, TLC

VARIABLES
    db_cols,        \* column names of the table, in table order (PRAGMA table_info)
    phase,          \* "new" | "ready" | "failed": where the constructor got to
    con,            \* "none" | "open" | "closed": the DuckDB connection
    in_with,        \* TRUE inside a `with CohortStore(...) as cs:` block
    _study_col,     \* self._study_col
    _where_parts,   \* self._where_parts
    _params,        \* self._params
    _select_cols,   \* self._select_cols: [isNone, cols]
    ret,            \* the (sql, params) the last call returned, if it was a build
    built,          \* history: a build/execute has run since the last reset()
    accepted,       \* history: the predicates appended since the last reset()
    args,           \* the arguments of the last call (reset() has none and keeps them)
    last,           \* the last call and its outcome
    tbl_exists,     \* upsert: the target table exists
    tbl,            \* upsert: rows of the target table, in insertion order
    old_tbl,        \* upsert: rows of the table when the last upsert started
    incoming,       \* upsert: the registered view `incoming` (rows of the CSV)
    key_cols        \* upsert: id_cols of the last upsert

storeVars  == <<db_cols, phase, con, in_with, _study_col, _where_parts, _params,
                _select_cols, ret, built, accepted, args, last>>
upsertVars == <<tbl_exists, tbl, old_tbl, incoming, key_cols>>
vars       == <<db_cols, phase, con, in_with, _study_col, _where_parts, _params,
                _select_cols, ret, built, accepted, args, last,
                tbl_exists, tbl, old_tbl, incoming, key_cols>>

\* Largest number of WHERE fragments a run accumulates.
MaxParts == 2

-----------------------------------------------------------------------------
(* Text *)

Uppers == <<"A","B","C","D","E","F","G","H","I","J","K","L","M",
            "N","O","P","Q","R","S","T","U","V","W","X","Y","Z">>
Lowers == <<"a","b","c","d","e","f","g","h","i","j","k","l","m",
            "n","o","p","q","r","s","t","u","v","w","x","y","z">>

InSeq(x, s) == \E i \in 1..Len(s) : s[i] = x

IndexIn(x, s) == CHOOSE i \in 1..Len(s) : s[i] = x

LowerChar(c) == IF InSeq(c, Uppers) THEN Lowers[IndexIn(c, Uppers)] ELSE c

UpperChar(c) == IF InSeq(c, Lowers) THEN Uppers[IndexIn(c, Lowers)] ELSE c

\* str.lower()
Lower(s) == [i \in 1..Len(s) |-> LowerChar(s[i])]

\* str.upper()
Upper(s) == [i \in 1..Len(s) |-> UpperChar(s[i])]

\* `t in n` on two strings
IsSubstr(t, n) == \E i \in 0..(Len(n) - Len(t)) : SubSeq(n, i + 1, i + Len(t)) = t

\* sep.join(parts)
RECURSIVE Join(_, _)
Join(parts, sep) ==
    IF parts = <<>> THEN <<>>
    ELSE IF Len(parts) = 1 THEN parts[1]
    ELSE parts[1] \o sep \o Join(Tail(parts), sep)

\* name.replace('"', '""')
RECURSIVE DoubleQuotes(_)
DoubleQuotes(name) ==
    IF name = <<>> THEN <<>>
    ELSE (IF Head(name) = "\"" THEN <<"\"", "\"">> ELSE <<Head(name)>>)
         \o DoubleQuotes(Tail(name))

\* A quoting that forgets to escape embedded quotes.
QuoteIdentRaw(name) == <<"\"">> \o name \o <<"\"">>

\* CohortStore._quote_ident
QuoteIdent(name) == <<"\"">> \o DoubleQuotes(name) \o <<"\"">>

RECURSIVE MapQuote(_)
MapQuote(cols) ==
    IF cols = <<>> THEN <<>> ELSE <<QuoteIdent(Head(cols))>> \o MapQuote(Tail(cols))

kwSelect == <<"S","E","L","E","C","T"," ">>
kwFrom   == <<" ","F","R","O","M"," ">>
kwWhere  == <<" ","W","H","E","R","E"," ">>
kwAnd    == <<" ","A","N","D"," ">>
kwOr     == <<" ","O","R"," ">>
kwTrue   == <<"1","=","1">>
kwStar   == <<"*">>
kwComma  == <<",", " ">>
kwEqQ    == <<" ","=", " ", "?">>

\* CohortStore._ALLOWED_OPS
_ALLOWED_OPS == << <<">">>, <<">","=">>, <<"<">>, <<"<","=">>, <<"=">>, <<"!","=">>,
                   <<"L","I","K","E">> >>

\* __init__'s default table name, "raw"
table == <<"r","a","w">>

\* Names tried by _detect_study_col, in priority order
cStudy      == <<"S","t","u","d","y">>
cStudyName  == <<"S","t","u","d","y"," ","N","a","m","e">>
cstudy      == <<"s","t","u","d","y">>
cStudyName2 == <<"S","t","u","d","y","N","a","m","e">>
cStudy_Name == <<"S","t","u","d","y","_","N","a","m","e">>
StudyCandidates == <<cStudy, cStudyName, cstudy, cStudyName2, cStudy_Name>>

\* Names tried by metrics() for the id column, in priority order
cImagePatientID == <<"I","m","a","g","e","/","P","a","t","i","e","n","t"," ","I","D">>
cPatientID      == <<"P","a","t","i","e","n","t"," ","I","D">>
cImageID        == <<"I","m","a","g","e"," ","I","D">>
cID             == <<"I","D">>
IdCandidates == <<cImagePatientID, cPatientID, cImageID, cID>>


\* Column names and tokens of the runs
cLiverVolume  == <<"L","i","v","e","r"," ","V","o","l","u","m","e">>
cLiverSUVMean == <<"L","i","v","e","r"," ","S","U","V","M","e","a","n">>
cKidneyVolume == <<"K","i","d","n","e","y"," ","V","o","l","u","m","e">>
cNotes        == <<"N","o","t","e","s">>
cSex          == <<"S","e","x">>
cWeird        == <<"\"","?","\"">>
tLiver        == <<"L","i","v","e","r">>
tVolume       == <<"V","o","l","u","m","e">>
tSUVMean      == <<"S","U","V","M","e","a","n">>
tKIDNEY       == <<"K","I","D","N","E","Y">>
tId           == <<"i","d">>

-----------------------------------------------------------------------------
(* CohortStore: the pure parts *)

\* An iteration over the table's columns instead of the priority list.
RECURSIVE DetectByColumnOrder(_, _)
DetectByColumnOrder(cands, cols) ==
    IF cols = <<>> THEN [ok |-> FALSE, col |-> <<>>]
    ELSE IF InSeq(Head(cols), cands) THEN [ok |-> TRUE, col |-> Head(cols)]
    ELSE DetectByColumnOrder(cands, Tail(cols))

\* Detection in the order of the table's columns.
DetectStudyColByColumnOrder(cols) == DetectByColumnOrder(StudyCandidates, cols)

\* The loop of _detect_study_col: ok = FALSE is the RuntimeError
RECURSIVE DetectFrom(_, _)
DetectFrom(cands, cols) ==
    IF cands = <<>> THEN [ok |-> FALSE, col |-> <<>>]
    ELSE IF InSeq(Head(cands), cols) THEN [ok |-> TRUE, col |-> Head(cands)]
    ELSE DetectFrom(Tail(cands), cols)

\* CohortStore._detect_study_col on the column list PRAGMA table_info returns
_detect_study_col(cols) == DetectFrom(StudyCandidates, cols)

\* Handing out the internal list itself instead of a copy.
ListAlias(l) == [items |-> l, same |-> TRUE]

\* list(self._params): a new list object with the same items
ListCopy(l) == [items |-> l, same |-> FALSE]

\* A build that joins the fragments with OR.
BuildSqlOr(wp, ps, sc) ==
    LET where_sql == IF wp # <<>> THEN Join(wp, kwOr) ELSE kwTrue
        select == IF sc.isNone THEN kwStar ELSE Join(MapQuote(sc.cols), kwComma)
    IN  [sql    |-> kwSelect \o select \o kwFrom \o QuoteIdent(table) \o kwWhere \o where_sql,
         params |-> ListCopy(ps)]

\* CohortStore._build_sql
_build_sql(wp, ps, sc) ==
    LET where_sql == IF wp # <<>> THEN Join(wp, kwAnd) ELSE kwTrue
        select == IF sc.isNone THEN kwStar ELSE Join(MapQuote(sc.cols), kwComma)
    IN  [sql    |-> kwSelect \o select \o kwFrom \o QuoteIdent(table) \o kwWhere \o where_sql,
         params |-> ListCopy(ps)]

\* A reset that keeps the column selection.
ResetKeepsSelection(sc) ==
    [wp |-> <<>>, ps |-> <<>>, sc |-> sc]

\* CohortStore.reset: the three assignments
reset(sc) ==
    [wp |-> <<>>, ps |-> <<>>, sc |-> [isNone |-> TRUE, cols |-> <<>>]]

\* A select_cohort that does nothing once fragments exist.
SelectCohortOnce(wp, ps, study_col, name) ==
    IF wp # <<>> THEN [wp |-> wp, ps |-> ps]
    ELSE [wp |-> Append(wp, QuoteIdent(study_col) \o kwEqQ), ps |-> Append(ps, name)]

\* CohortStore.select_cohort
select_cohort(wp, ps, study_col, name) ==
    [wp |-> Append(wp, QuoteIdent(study_col) \o kwEqQ), ps |-> Append(ps, name)]

\* The loop of CohortStore.filter over the keyword arguments kw, from the i-th on.
\* st = [wp, ps, raised]; raised = TRUE is the ValueError, which ends the loop.
RECURSIVE FilterLoop(_, _, _)
FilterLoop(st, kw, i) ==
    IF i > Len(kw) THEN st
    ELSE LET col   == kw[i].col
             val   == kw[i].val
             col_q == QuoteIdent(col)
         IN  IF val.tuple2
             THEN LET op_u == Upper(val.op)
                  IN  IF ~InSeq(op_u, _ALLOWED_OPS)
                      THEN [st EXCEPT !.raised = TRUE]
                      ELSE FilterLoop([wp |-> Append(st.wp, col_q \o <<" ">> \o op_u \o <<" ", "?">>),
                                       ps |-> Append(st.ps, val.v),
                                       raised |-> FALSE], kw, i + 1)
             ELSE FilterLoop([wp |-> Append(st.wp, col_q \o kwEqQ),
                              ps |-> Append(st.ps, val.v),
                              raised |-> FALSE], kw, i + 1)

\* CohortStore.filter(**kw)
filter(wp, ps, kw) == FilterLoop([wp |-> wp, ps |-> ps, raised |-> FALSE], kw, 1)

\* A match that compares without lower-casing.
MatchesCaseSensitive(name, organs_list, kinds_list) ==
    LET ok_org  == IF organs_list # <<>>
                   THEN \E i \in 1..Len(organs_list) : IsSubstr(organs_list[i], name)
                   ELSE TRUE
        ok_kind == IF kinds_list # <<>>
                   THEN \E i \in 1..Len(kinds_list) : IsSubstr(kinds_list[i], name)
                   ELSE TRUE
    IN  ok_org /\ ok_kind

\* metrics(): the nested function matches(name)
matches(name, organs_list, kinds_list) ==
    LET n       == Lower(name)
        ok_org  == IF organs_list # <<>>
                   THEN \E i \in 1..Len(organs_list) : IsSubstr(Lower(organs_list[i]), n)
                   ELSE TRUE
        ok_kind == IF kinds_list # <<>>
                   THEN \E i \in 1..Len(kinds_list) : IsSubstr(Lower(kinds_list[i]), n)
                   ELSE TRUE
    IN  ok_org /\ ok_kind

\* metrics(): the loop over the id candidates, with its break
RECURSIVE IdLoop(_, _, _)
IdLoop(cands, colnames, base_cols) ==
    IF cands = <<>> THEN base_cols
    ELSE IF InSeq(Head(cands), colnames) /\ ~InSeq(Head(cands), base_cols)
         THEN Append(base_cols, Head(cands))
         ELSE IdLoop(Tail(cands), colnames, base_cols)

\* metrics(): the de-duplication loop (ordered; seen holds the same names)
RECURSIVE Dedup(_, _)
Dedup(cs, ordered) ==
    IF cs = <<>> THEN ordered
    ELSE Dedup(Tail(cs), IF InSeq(Head(cs), ordered) THEN ordered ELSE Append(ordered, Head(cs)))

\* CohortStore.metrics: the value assigned to self._select_cols
metrics(colnames, study_col, organs, kinds) ==
    LET keep      == SelectSeq(colnames, LAMBDA c : matches(c, organs, kinds))
        base_cols == IdLoop(IdCandidates, colnames,
                            IF InSeq(study_col, colnames) THEN <<study_col>> ELSE <<>>)
    IN  Dedup(base_cols \o keep, <<>>)


-----------------------------------------------------------------------------
(* CohortStore: the calls *)

NoRet  == [held |-> FALSE, sql |-> <<>>, params |-> <<>>, orig |-> <<>>, alias |-> FALSE]
NoArgs == [name |-> "", organs |-> <<>>, kinds |-> <<>>]
NoneCols == [isNone |-> TRUE, cols |-> <<>>]

\* Inputs of the runs
CohortNames == {"UK Biobank", "NAKO"}
FilterCols  == {cSex, cWeird}
FilterVals  == { [tuple2 |-> FALSE, op |-> <<>>,                v |-> "f"],
                 [tuple2 |-> TRUE,  op |-> <<"l","i","k","e">>, v |-> "f%"],
                 [tuple2 |-> TRUE,  op |-> <<"~">>,             v |-> "70"] }
\* Keyword arguments: an ordered mapping with distinct keys
Kwargs == UNION { { k \in [1..n -> [col : FilterCols, val : FilterVals]] :
                      \A i, j \in 1..n : i # j => k[i].col # k[j].col } :
                  n \in 0..Cardinality(FilterCols) }
TokenChoices == { [organs |-> <<tLiver>>,  kinds |-> <<tVolume, tSUVMean>>],
                  [organs |-> <<>>,        kinds |-> <<>>] }

ExampleCols == <<cStudy, cID, cLiverVolume, cLiverSUVMean, cKidneyVolume, cNotes>>
WeirdCols   == <<cStudyName, cID, cWeird, cStudy, cPatientID>>

\* self._where_parts, self._params, self._select_cols
builder == <<_where_parts, _params, _select_cols>>

Reset ==
    /\ phase = "ready"
    /\ LET r == reset(_select_cols)
       IN  /\ _where_parts' = r.wp
           /\ _params' = r.ps
           /\ _select_cols' = r.sc
    /\ built' = FALSE
    /\ accepted' = <<>>
    /\ ret' = NoRet
    /\ last' = "reset"
    /\ UNCHANGED <<db_cols, phase, con, in_with, _study_col, args>>
    /\ UNCHANGED upsertVars

SelectCohort ==
    \E name \in CohortNames :
        /\ phase = "ready"
        /\ Len(_where_parts) < MaxParts
        /\ LET r == select_cohort(_where_parts, _params, _study_col, name)
           IN  /\ _where_parts' = r.wp
               /\ _params' = r.ps
        /\ accepted' = Append(accepted, [col |-> _study_col, op |-> <<"=">>, v |-> name])
        /\ ret' = NoRet
        /\ args' = [NoArgs EXCEPT !.name = name]
        /\ last' = "select_cohort"
        /\ UNCHANGED <<db_cols, phase, con, in_with, _study_col, _select_cols, built>>
        /\ UNCHANGED upsertVars

\* The predicates of kw that precede its first unsupported operator
RECURSIVE Validated(_)
Validated(kw) ==
    IF kw = <<>> THEN <<>>
    ELSE LET val == Head(kw).val
             op  == IF val.tuple2 THEN Upper(val.op) ELSE <<"=">>
         IN  IF InSeq(op, _ALLOWED_OPS)
             THEN <<[col |-> Head(kw).col, op |-> op, v |-> val.v]>> \o Validated(Tail(kw))
             ELSE <<>>

Filter ==
    \E kw \in Kwargs :
        /\ phase = "ready"
        /\ Len(_where_parts) + Len(kw) <= MaxParts
        /\ LET r == filter(_where_parts, _params, kw)
           IN  /\ _where_parts' = r.wp
               /\ _params' = r.ps
               /\ last' = IF r.raised THEN "filter_rejected" ELSE "filter"
        /\ accepted' = accepted \o Validated(kw)
        /\ ret' = NoRet
        /\ args' = NoArgs
        /\ UNCHANGED <<db_cols, phase, con, in_with, _study_col, _select_cols, built>>
        /\ UNCHANGED upsertVars

\* metrics() on a closed connection raises at PRAGMA table_info and assigns nothing
MetricsWith(Toks) ==
    \E tok \in Toks :
        /\ phase = "ready"
        /\ IF con = "open"
           THEN /\ _select_cols' = [isNone |-> FALSE,
                                    cols   |-> metrics(db_cols, _study_col, tok.organs, tok.kinds)]
                /\ last' = "metrics"
           ELSE /\ _select_cols' = _select_cols
                /\ last' = "metrics_failed"
        /\ ret' = NoRet
        /\ args' = [NoArgs EXCEPT !.organs = tok.organs, !.kinds = tok.kinds]
        /\ UNCHANGED <<db_cols, phase, con, in_with, _study_col, _where_parts, _params,
                       built, accepted>>
        /\ UNCHANGED upsertVars

Metrics == MetricsWith(TokenChoices)

\* A caller that calls _build_sql() and keeps the pair it returns
BuildSql ==
    /\ phase = "ready"
    /\ LET r == _build_sql(_where_parts, _params, _select_cols)
       IN  ret' = [held |-> TRUE, sql |-> r.sql, params |-> r.params.items,
                   orig |-> r.params.items, alias |-> r.params.same]
    /\ built' = TRUE
    /\ args' = NoArgs
    /\ last' = "_build_sql"
    /\ UNCHANGED <<db_cols, phase, con, in_with, _study_col, _where_parts, _params,
                   _select_cols, accepted>>
    /\ UNCHANGED upsertVars

QuerySql ==
    /\ phase = "ready"
    /\ LET r == _build_sql(_where_parts, _params, _select_cols)
       IN  ret' = [NoRet EXCEPT !.sql = r.sql]
    /\ built' = TRUE
    /\ args' = NoArgs
    /\ last' = "query_sql"
    /\ UNCHANGED <<db_cols, phase, con, in_with, _study_col, _where_parts, _params,
                   _select_cols, accepted>>
    /\ UNCHANGED upsertVars

\* to_pandas(): the build, then con.execute, which raises on a closed connection
ToPandas ==
    /\ phase = "ready"
    /\ built' = TRUE
    /\ ret' = NoRet
    /\ args' = NoArgs
    /\ last' = IF con = "open" THEN "to_pandas" ELSE "to_pandas_failed"
    /\ UNCHANGED <<db_cols, phase, con, in_with, _study_col, _where_parts, _params,
                   _select_cols, accepted>>
    /\ UNCHANGED upsertVars

\* to_polars(): raises before the build when polars cannot be imported
ToPolars ==
    \E installed \in BOOLEAN :
        /\ phase = "ready"
        /\ built' = (IF installed THEN TRUE ELSE built)
        /\ ret' = NoRet
        /\ args' = NoArgs
        /\ last' = IF ~installed THEN "to_polars_no_polars"
                   ELSE IF con = "open" THEN "to_polars" ELSE "to_polars_failed"
        /\ UNCHANGED <<db_cols, phase, con, in_with, _study_col, _where_parts, _params,
                       _select_cols, accepted>>
        /\ UNCHANGED upsertVars

\* The caller appends to the list _build_sql() returned; when that list is the
\* object self._params names, the append is seen through self._params too
CallerMutate ==
    /\ phase = "ready"
    /\ ret.held
    /\ ret.params = ret.orig
    /\ ret' = [ret EXCEPT !.params = Append(@, "extra")]
    /\ _params' = IF ret.alias THEN Append(_params, "extra") ELSE _params
    /\ args' = NoArgs
    /\ last' = "caller_mutate"
    /\ UNCHANGED <<db_cols, phase, con, in_with, _study_col, _where_parts,
                   _select_cols, built, accepted>>
    /\ UNCHANGED upsertVars

\* A store constructed over one of the tables Cats, each with a study column
InitWith(Cats) ==
    /\ db_cols \in Cats
    /\ phase = "ready"
    /\ con = "open"
    /\ in_with = FALSE
    /\ _study_col = _detect_study_col(db_cols).col
    /\ _where_parts = <<>>
    /\ _params = <<>>
    /\ _select_cols = NoneCols
    /\ ret = NoRet
    /\ built = FALSE
    /\ accepted = <<>>
    /\ args = NoArgs
    /\ last = "init"
    /\ tbl_exists = FALSE
    /\ tbl = <<>>
    /\ old_tbl = <<>>
    /\ incoming = <<>>
    /\ key_cols = <<>>

Init == InitWith({ExampleCols, WeirdCols})

Next ==
    \/ Reset
    \/ SelectCohort
    \/ Filter
    \/ Metrics
    \/ BuildSql
    \/ QuerySql
    \/ ToPandas
    \/ ToPolars
    \/ CallerMutate

Spec == Init /\ [][Next]_vars


-----------------------------------------------------------------------------
(* Construction and teardown *)

\* The orderings of a set of column names
Orderings(S) == { s \in [1..Cardinality(S) -> S] : \A i, j \in 1..Cardinality(S) : i # j => s[i] # s[j] }

LifeCatalogs == Orderings({cStudyName, cID, cStudy, cNotes})
                \cup Orderings({cID, cNotes, cSex})
                \cup Orderings({cStudy_Name, cstudy, cID})

\* CohortStore.__init__: connect, then detect; the RuntimeError of the
\* detection leaves __init__ with the connection it opened still open
Construct ==
    /\ phase = "new"
    /\ con' = "open"
    /\ LET d == _detect_study_col(db_cols)
       IN  IF d.ok
           THEN /\ phase' = "ready"
                /\ _study_col' = d.col
                /\ last' = "init"
           ELSE /\ phase' = "failed"
                /\ _study_col' = _study_col
                /\ last' = "init_failed"
    /\ _where_parts' = <<>>
    /\ _params' = <<>>
    /\ _select_cols' = NoneCols
    /\ UNCHANGED <<db_cols, in_with, ret, built, accepted, args>>
    /\ UNCHANGED upsertVars

\* CohortStore.close: con.close() with every exception swallowed
Close ==
    /\ phase = "ready"
    /\ con' = "closed"
    /\ last' = "close"
    /\ UNCHANGED <<db_cols, phase, in_with, _study_col, _where_parts, _params,
                   _select_cols, ret, built, accepted, args>>
    /\ UNCHANGED upsertVars

\* CohortStore.__enter__
Enter ==
    /\ phase = "ready"
    /\ ~in_with
    /\ in_with' = TRUE
    /\ last' = "enter"
    /\ UNCHANGED <<db_cols, phase, con, _study_col, _where_parts, _params,
                   _select_cols, ret, built, accepted, args>>
    /\ UNCHANGED upsertVars

\* CohortStore.__exit__: close()
Exit ==
    /\ phase = "ready"
    /\ in_with
    /\ in_with' = FALSE
    /\ con' = "closed"
    /\ last' = "exit"
    /\ UNCHANGED <<db_cols, phase, _study_col, _where_parts, _params,
                   _select_cols, ret, built, accepted, args>>
    /\ UNCHANGED upsertVars

\* Before CohortStore(db_path, table) is called on some table
LifeInit ==
    /\ db_cols \in LifeCatalogs
    /\ phase = "new"
    /\ con = "none"
    /\ in_with = FALSE
    /\ _study_col = <<>>
    /\ _where_parts = <<>>
    /\ _params = <<>>
    /\ _select_cols = NoneCols
    /\ ret = NoRet
    /\ built = FALSE
    /\ accepted = <<>>
    /\ args = NoArgs
    /\ last = "new"
    /\ tbl_exists = FALSE
    /\ tbl = <<>>
    /\ old_tbl = <<>>
    /\ incoming = <<>>
    /\ key_cols = <<>>

LifeNext ==
    \/ Construct
    \/ Close
    \/ Enter
    \/ Exit
    \/ Metrics
    \/ ToPandas

LifeSpec == LifeInit /\ [][LifeNext]_vars

-----------------------------------------------------------------------------
(* Column selection over a table that is rebuilt under the store *)

WideTokens == TokenChoices \cup
              { [organs |-> <<tKIDNEY>>,       kinds |-> <<>>],
                [organs |-> <<>>,              kinds |-> <<tId>>],
                [organs |-> <<tKIDNEY, tLiver>>, kinds |-> <<tVolume>>] }

RebuildCatalogs == { ExampleCols, WeirdCols,
                     <<cKidneyVolume, cID, cNotes, cImageID>>,
                     <<cNotes, cSex>>,
                     <<cLiverVolume, cstudy, cPatientID>>,
                     <<cPatientID, cImagePatientID, cStudyName, cKidneyVolume, cLiverSUVMean>> }

\* build_db_from_csv: DROP TABLE, CREATE TABLE AS SELECT * FROM df; the
\* columns of the table are those of the new CSV
RebuildTable ==
    \E cols \in RebuildCatalogs :
        /\ db_cols' = cols
        /\ last' = "rebuild"
        /\ args' = NoArgs
        /\ UNCHANGED <<phase, con, in_with, _study_col, _where_parts, _params,
                       _select_cols, ret, built, accepted>>
        /\ UNCHANGED upsertVars

MetricsWide == MetricsWith(WideTokens)

MetricsNext ==
    \/ MetricsWide
    \/ RebuildTable
    \/ Reset

MetricsInit == InitWith({ c \in RebuildCatalogs : _detect_study_col(c).ok })

MetricsSpec == MetricsInit /\ [][MetricsNext]_vars

-----------------------------------------------------------------------------
(* etl_wrappers.py: append and upsert *)

\* Largest number of rows of the table, and of a CSV.
MaxRows == 3
MaxBatch == 2

\* A missing CSV cell: NaN in the DataFrame, NULL in DuckDB
NULL == "<NULL>"

ID_COL    == "Image/Patient ID"
STUDY_COL == "Study Name"
VAL_COL   == "Liver Volume"

Rows == [ {ID_COL, STUDY_COL, VAL_COL} -> {"P1", "P2", "A", "old", "new", NULL} ]

CsvRows == { r \in Rows : /\ r[ID_COL] \in {"P1", "P2"}
                          /\ r[STUDY_COL] \in {"A", NULL}
                          /\ r[VAL_COL] \in {"old", "new"} }

Batches == UNION { [1..n -> CsvRows] : n \in 0..MaxBatch }

\* id_cols: the default, and a caller's choice
IdColChoices == { <<ID_COL, STUDY_COL>>, <<ID_COL>> }

\* SQL `a = b`: unknown ("null") when either side is NULL
SqlEq(a, b) == IF a = NULL \/ b = NULL THEN "null" ELSE IF a = b THEN "true" ELSE "false"

\* SQL AND over the conditions t."c" = i."c", c in id_cols
RECURSIVE conditions(_, _, _)
conditions(t, i, id_cols) ==
    IF id_cols = <<>> THEN "true"
    ELSE LET h == SqlEq(t[Head(id_cols)], i[Head(id_cols)])
             r == conditions(t, i, Tail(id_cols))
         IN  IF h = "false" \/ r = "false" THEN "false"
             ELSE IF h = "null" \/ r = "null" THEN "null"
             ELSE "true"

\* upsert_rows_from_csv: DELETE FROM t USING incoming i WHERE conditions, then
\* INSERT INTO t SELECT * FROM incoming
upsert_rows(t_rows, inc, id_cols) ==
    SelectSeq(t_rows, LAMBDA t : ~\E k \in 1..Len(inc) : conditions(t, inc[k], id_cols) = "true")
    \o inc

\* append_rows_from_csv
AppendRows ==
    \E df_new \in Batches :
        /\ Len(tbl) + Len(df_new) <= MaxRows
        /\ tbl_exists' = TRUE
        /\ tbl' = tbl \o df_new
        /\ old_tbl' = <<>>
        /\ incoming' = <<>>
        /\ key_cols' = <<>>
        /\ last' = "append"
        /\ UNCHANGED <<db_cols, phase, con, in_with, _study_col, _where_parts, _params,
                       _select_cols, ret, built, accepted, args>>

\* upsert_rows_from_csv
UpsertRows ==
    \E df_new \in Batches, id_cols \in IdColChoices :
        /\ Len(tbl) + Len(df_new) <= MaxRows
        /\ tbl_exists' = TRUE
        /\ tbl' = upsert_rows(tbl, df_new, id_cols)
        /\ old_tbl' = tbl
        /\ incoming' = df_new
        /\ key_cols' = id_cols
        /\ last' = "upsert"
        /\ UNCHANGED <<db_cols, phase, con, in_with, _study_col, _where_parts, _params,
                       _select_cols, ret, built, accepted, args>>

\* No database file yet
UpsertInit ==
    /\ db_cols = <<ID_COL, STUDY_COL, VAL_COL>>
    /\ phase = "new"
    /\ con = "none"
    /\ in_with = FALSE
    /\ _study_col = <<>>
    /\ _where_parts = <<>>
    /\ _params = <<>>
    /\ _select_cols = NoneCols
    /\ ret = NoRet
    /\ built = FALSE
    /\ accepted = <<>>
    /\ args = NoArgs
    /\ last = "new"
    /\ tbl_exists = FALSE
    /\ tbl = <<>>
    /\ old_tbl = <<>>
    /\ incoming = <<>>
    /\ key_cols = <<>>

UpsertNext ==
    \/ AppendRows
    \/ UpsertRows

UpsertSpec == UpsertInit /\ [][UpsertNext]_vars

\*CLAIMS
-----------------------------------------------------------------------------
(* Properties *)

\* The number of `?` placeholders of a SQL text: the question marks outside
\* double-quoted identifiers, that is, those preceded by an even number of
\* double quotes (a doubled quote inside an identifier closes and reopens it)
Placeholders(text) ==
    Cardinality({ i \in 1..Len(text) :
                    /\ text[i] = "?"
                    /\ Cardinality({ j \in 1..(i - 1) : text[j] = "\"" }) % 2 = 0 })

\* The text that follows the first " WHERE " of a SQL text
WhereText(sql) ==
    LET i == CHOOSE k \in 1..Len(sql) :
                 /\ SubSeq(sql, k, k + Len(kwWhere) - 1) = kwWhere
                 /\ \A m \in 1..(k - 1) : SubSeq(sql, m, m + Len(kwWhere) - 1) # kwWhere
    IN  SubSeq(sql, i + Len(kwWhere), Len(sql))

\* SELECT * FROM "raw" WHERE 1=1
ResetSql == <<"S","E","L","E","C","T"," ","*"," ","F","R","O","M"," ",
              "\"","r","a","w","\""," ","W","H","E","R","E"," ","1","=","1">>

\* The fragment the claim gives for a predicate [col, op, v]
FragmentOf(p) == <<"\"">> \o DoubleQuotes(p.col) \o <<"\"", " ">> \o p.op \o <<" ", "?">>

\* C1: whatever reset/select_cohort/filter/metrics calls were made (rejected
\* filter calls included), the params list _build_sql() returns has as many
\* elements as the SQL text has `?` placeholders; every stored fragment holds
\* exactly one placeholder and the two lists have the same length.
C1_ParamsMatchPlaceholders ==
    LET r == _build_sql(_where_parts, _params, _select_cols)
    IN  /\ Len(r.params.items) = Placeholders(r.sql)
        /\ Len(_where_parts) = Len(_params)
        /\ \A i \in 1..Len(_where_parts) : Placeholders(_where_parts[i]) = 1

\* A rejected filter call left a fragment behind, a fragment and a selected
\* column both carry a question mark inside a quoted identifier
C1_Witness ==
    /\ last = "filter_rejected"
    /\ \E i \in 1..Len(_where_parts) : _where_parts[i] = QuoteIdent(cWeird) \o kwEqQ
    /\ ~_select_cols.isNone
    /\ InSeq(cWeird, _select_cols.cols)

\* C2: a filter call rejected for an unsupported operator leaves the WHERE
\* fragments and the parameters as they were before the call.
C2_RejectedFilterChangesNothing ==
    [][last' = "filter_rejected" => builder' = builder]_vars

\* C3: reset() clears fragments, parameters and selection together, and a
\* build right after it returns SELECT * FROM "raw" WHERE 1=1 with no params;
\* reset() is accepted in every state of a constructed store.
C3_ResetThenBuild ==
    /\ [](phase = "ready" => ENABLED Reset)
    /\ [](last = "reset" =>
            /\ builder = << <<>>, <<>>, NoneCols >>
            /\ _build_sql(_where_parts, _params, _select_cols).sql = ResetSql
            /\ _build_sql(_where_parts, _params, _select_cols).params.items = <<>>)
    /\ [][last = "reset" /\ BuildSql => ret'.sql = ResetSql /\ ret'.params = <<>>]_vars

\* reset() has just run on a store that select_cohort had added a fragment to
C3_Witness ==
    /\ last = "reset"
    /\ args.name = "NAKO"
    /\ _where_parts = <<>>
    /\ _select_cols.isNone

\* C4 as stated: between a build/execute and the next reset(), no
\* select_cohort, filter or metrics call changes fragments, parameters or
\* selection.
C4_BuiltIsReadOnly ==
    [][built /\ last' \in {"select_cohort", "filter", "metrics"}
         => builder' = builder]_vars

\* C4 as amended: a build/execute changes nothing and locks nothing; after it
\* select_cohort still appends its fragment and parameter, an accepted filter
\* still appends one fragment and parameter per keyword, metrics still
\* replaces the selection, until reset() clears all three.
C4_BuildDoesNotLock ==
    [][built =>
         /\ (last' = "select_cohort" =>
               /\ _where_parts' = Append(_where_parts, QuoteIdent(_study_col) \o kwEqQ)
               /\ _params' = Append(_params, args'.name)
               /\ _select_cols' = _select_cols)
         /\ (last' = "filter" =>
               /\ Len(_where_parts') = Len(_where_parts) + (Len(accepted') - Len(accepted))
               /\ SubSeq(_where_parts', 1, Len(_where_parts)) = _where_parts
               /\ Len(_params') = Len(_where_parts'))
         /\ (last' = "metrics" => ~_select_cols'.isNone /\ _where_parts' = _where_parts)
         /\ (last' = "reset" => builder' = << <<>>, <<>>, NoneCols >> /\ ~built')
         /\ (last' \in {"_build_sql", "query_sql", "to_pandas", "to_polars"} =>
               builder' = builder /\ built')]_vars

\* select_cohort has appended to a store that was built before
C4_Witness ==
    /\ built
    /\ last = "select_cohort"
    /\ Len(_where_parts) = 2

\* C6: the WHERE text of a build is the AND-join of one fragment per predicate
\* that passed validation, in the order the predicates were added since the
\* last reset, and the params are their values in that order; select_cohort
\* alone gives "<study column>" = ? with params [name].
C6_WhereIsOrderedConjunction ==
    LET r == _build_sql(_where_parts, _params, _select_cols)
        frags == [i \in 1..Len(accepted) |-> FragmentOf(accepted[i])]
    IN  /\ accepted # <<>> => WhereText(r.sql) = Join(frags, <<" ","A","N","D"," ">>)
        /\ accepted = <<>>  => WhereText(r.sql) = <<"1","=","1">>
        /\ r.params.items = [i \in 1..Len(accepted) |-> accepted[i].v]
        /\ (last = "select_cohort" /\ Len(accepted) = 1) =>
               /\ WhereText(r.sql) = <<"\"">> \o _study_col \o <<"\""," ","=", " ", "?">>
               /\ r.params.items = <<args.name>>
        /\ last = "_build_sql" => ret.sql = r.sql /\ ret.orig = r.params.items

\* A build of a cohort selection followed by a LIKE filter
C6_Witness ==
    /\ last = "_build_sql"
    /\ Len(accepted) = 2
    /\ accepted[1].col = _study_col
    /\ accepted[2].op = <<"L","I","K","E">>
    /\ ret.params = <<accepted[1].v, accepted[2].v>>

\* C7: a build changes none of fragments, parameters, selection; a build that
\* follows a build (with at most the caller appending to the returned list in
\* between) returns the same SQL and the same params; the caller's append to
\* the returned list changes nothing of the store.
C7_BuildIsPure ==
    [][/\ (BuildSql \/ QuerySql \/ ToPandas \/ ToPolars => builder' = builder)
       /\ (CallerMutate => builder' = builder)
       /\ (last \in {"_build_sql", "caller_mutate"} /\ BuildSql =>
               ret'.sql = ret.sql /\ ret'.params = ret.orig)]_vars

\* The caller has appended to the list a build returned
C7_Witness ==
    /\ last = "caller_mutate"
    /\ _params # <<>>
    /\ ret.params = Append(_params, "extra")


\* The set of the elements of a sequence
Range(s) == { s[i] : i \in 1..Len(s) }

\* The columns the claim wants selected by metrics(organs, kinds) on a table
\* with columns cols and a store with study column study
WantedSelection(cols, study, organs, kinds) ==
    LET hit(c) == /\ (organs = <<>> \/ \E o \in Range(organs) : IsSubstr(Lower(o), Lower(c)))
                  /\ (kinds = <<>> \/ \E k \in Range(kinds) : IsSubstr(Lower(k), Lower(c)))
        studyPart == IF study \in Range(cols) THEN <<study>> ELSE <<>>
        found == { i \in 1..Len(IdCandidates) : IdCandidates[i] \in Range(cols) }
        idPart == IF found = {} THEN <<>>
                  ELSE <<IdCandidates[CHOOSE i \in found : \A j \in found : i <= j]>>
        first == studyPart \o idPart
    IN  first \o SelectSeq(cols, LAMBDA c : hit(c) /\ c \notin Range(first))

\* C5: after metrics(organs, kinds) the selection is, whatever it was before,
\* the study column (if the table has it), then the first id candidate the
\* table has, then the table's columns that match an organ token and a kind
\* token case-insensitively, in table order and without duplicates; on the
\* six-column example it is [Study, ID, Liver Volume, Liver SUVMean].
C5_MetricsSelection ==
    /\ last = "metrics" =>
          /\ ~_select_cols.isNone
          /\ _select_cols.cols = WantedSelection(db_cols, _study_col, args.organs, args.kinds)
          /\ \A i, j \in 1..Len(_select_cols.cols) :
                 i # j => _select_cols.cols[i] # _select_cols.cols[j]
    /\ metrics(ExampleCols, cStudy, <<tLiver>>, <<tVolume, tSUVMean>>)
          = <<cStudy, cID, cLiverVolume, cLiverSUVMean>>

\* metrics(["KIDNEY"]) has run on a rebuilt table that lost the study column:
\* the selection starts with the id column and matched "Kidney Volume"
C5_Witness ==
    /\ last = "metrics"
    /\ args.organs = <<tKIDNEY>>
    /\ ~InSeq(_study_col, db_cols)
    /\ _select_cols.cols = <<cImageID, cKidneyVolume>>

\* C8: the connection the constructor opened is released on every exit path;
\* when construction fails for want of a study column the connection is
\* closed before the error reaches the caller.
C8_ConnectionReleasedOnFailure ==
    phase = "failed" => con # "open"

\* C9: detection returns the first name of the priority list that the table
\* has, whatever the order of the table's columns, and fails exactly when
\* the table has none of them.
C9_StudyColumnByPriority ==
    LET found == { i \in 1..Len(StudyCandidates) : StudyCandidates[i] \in Range(db_cols) }
    IN  /\ phase = "failed" => found = {}
        /\ phase = "ready" =>
              /\ found # {}
              /\ _study_col = StudyCandidates[CHOOSE i \in found : \A j \in found : i <= j]
        /\ \A p \in Orderings(Range(db_cols)) : _detect_study_col(p) = _detect_study_col(db_cols)

\* A store constructed over a table whose first column is "Study Name" and
\* which has "Study" further on: the study column is "Study"
C9_Witness ==
    /\ phase = "ready"
    /\ last = "init"
    /\ db_cols[1] = cStudyName
    /\ _study_col = cStudy

\* The rows of a table whose id_cols values are k, in table order
RowsOfKey(rows, k) ==
    SelectSeq(rows, LAMBDA r : [i \in 1..Len(key_cols) |-> r[key_cols[i]]] = k)

KeysOf(rows) == { [i \in 1..Len(key_cols) |-> rows[n][key_cols[i]]] : n \in 1..Len(rows) }

\* C10: after an upsert, for every key of an incoming row the table holds the
\* incoming rows of that key and no other row of that key, and for every
\* other key the rows it held before.
C10_DeleteThenInsert ==
    last = "upsert" =>
        \A k \in KeysOf(old_tbl) \cup KeysOf(incoming) :
            RowsOfKey(tbl, k) = IF k \in KeysOf(incoming)
                                THEN RowsOfKey(incoming, k)
                                ELSE RowsOfKey(old_tbl, k)

====
